---- MODULE Spec2Model ----
(***************************************************************************)
(* Model of the reconnecting WebSocket client of main/mcp_websocket.c:     *)
(* the control loop websocket_main_task, the API calls init/start/stop/    *)
(* send_text, the keepalive timer callback and the bounded send queue,     *)
(* together with the event handler of main/mcp_server.c that the client    *)
(* calls back.  One variable per field of g_ws_client; one action per      *)
(* step of a handler between two accesses to state shared with another     *)
(* execution unit.                                                         *)
(***************************************************************************)
EXTENDS Integers, Sequences, FiniteSets, TLC

(* ------------------------------ bounds --------------------------------- *)
\* capacity of the send queue in the model (stands for MCP_WS_SEND_QUEUE_SIZE)
MaxQueue == 2
\* largest value the reconnect counter takes in the concurrent model: the
\* transport stops failing once the counter is there
MaxReconnect == 1
\* largest value of the sent and received counters in the concurrent model
MaxCount == 1
\* largest reconnect counter value of the backoff computation's model
MaxK == 36
\* consecutive connect failures in the model of the reconnect liveness
MaxFailures == 4
\* frames accepted in all in the model of the frame order
MaxAccepted == 2

(* ------------------------- program constants --------------------------- *)
MCP_WS_RECONNECT_DELAY_MS == 5000
MaxDelayMs == 60000
BackoffThreshold == 3
HandshakeOk == 101
HandshakeUnauthorized == 401
MCP_WS_MAX_URL_LEN == 512
MCP_WS_MAX_PATH_LEN == 512
MCP_WS_MAX_HOST_LEN == 256
WsSchemeLen == 5
WssSchemeLen == 6
DefaultPortWs == 80
DefaultPortWss == 443
MaxPort == 65535
ESP_ERR_TIMEOUT == 263
Half == 65536
IntBits == 32

States == {"IDLE", "INITIALIZING", "CONNECTING", "CONNECTED",
           "DISCONNECTING", "DISCONNECTED", "RECONNECTING", "ERROR"}

\* opcodes a transport read can report ("CONT" stands for any other opcode)
Opcodes == {"TEXT", "BINARY", "CLOSE", "PING", "PONG", "CONT"}

\* payloads of inbound frames: the empty payload and a one-byte payload
RxPayloads == {<<>>, <<1>>}

\* payloads of the TEXT frames the application sends
TextPayloads == {<<1>>}

\* uint8_t ping_data[4] = {0x12, 0x34, 0x56, 0x78}
ping_data == <<18, 52, 86, 120>>

\* reconnect base delays a configuration can carry (0 selects the default;
\* the largest is TLC's largest integer, 2^31 - 1)
BaseDelays == {0, 1, 1000, 5000, 7500, 60000, 60001, 100000, 2147483647}

VARIABLES
    initialized,               \* g_ws_client.initialized
    config_auto_reconnect,     \* g_ws_client.config.auto_reconnect
    config_reconnect_delay_ms, \* g_ws_client.config.reconnect_delay_ms
    state,                     \* g_ws_client.state
    should_stop,               \* g_ws_client.should_stop
    auto_reconnect_enabled,    \* g_ws_client.auto_reconnect_enabled
    transport_list,            \* g_ws_client.transport_list != NULL
    transport,                 \* g_ws_client.transport != NULL
    open_sessions,             \* sessions opened by connect and not yet closed
    main_task,                 \* g_ws_client.main_task != NULL
    tpc,                       \* position of the control loop task
    send_queue,                \* g_ws_client.send_queue (frames held)
    timer_armed,               \* ping_timer is armed
    timer_cb,                  \* position of ping_timer_callback
    sent_messages,             \* g_ws_client.sent_messages
    received_messages,         \* g_ws_client.received_messages
    reconnect_count,           \* g_ws_client.reconnect_count
    delay_ms,                  \* delay_ms of the Reconnecting wait in progress (else 0)
    conn,                      \* result of the esp_transport_connect in progress
    rx,                        \* result of the esp_transport_read in progress
    apc,                       \* position of the thread calling init/start/stop
    prod_pc,                   \* position of the thread calling send_text
    send_ret,                  \* return value of the last send_text call
    srv_connected,             \* g_mcp_ws_state.connected (mcp_server.c)
    accepted,                  \* history: the frames xQueueSend accepted, in order
    written,                   \* history: the frames esp_transport_ws_send_raw sent
    delivered,                 \* history: how many MESSAGE_SENT and
                               \* MESSAGE_RECEIVED events the callback was given
    client_url,                \* the endpoint fields and the event callback of
                               \* g_ws_client, with the argument and result of
                               \* the last init call
    second                     \* positions of a second thread calling start
                               \* and of a second websocket_main_task

vars == <<initialized, config_auto_reconnect, config_reconnect_delay_ms, state,
          should_stop, auto_reconnect_enabled, transport_list, transport,
          open_sessions, main_task, tpc, send_queue, timer_armed, timer_cb,
          sent_messages, received_messages, reconnect_count, delay_ms, conn, rx,
          apc, prod_pc, send_ret, srv_connected, accepted, written,
          delivered, client_url,
          second>>

cfgVars == <<initialized, config_auto_reconnect, config_reconnect_delay_ms>>
flagVars == <<should_stop, auto_reconnect_enabled>>
transVars == <<transport_list, transport, open_sessions>>
timerVars == <<timer_armed, timer_cb>>
statVars == <<sent_messages, received_messages, reconnect_count>>
prodVars == <<prod_pc, send_ret>>
logVars == <<accepted, written, delivered>>
urlVars == <<client_url>>
raceVars == <<second>>

\* config->endpoint of the last mcp_websocket_init call
endpoint == client_url.endpoint
\* g_ws_client.use_ssl
use_ssl == client_url.use_ssl
\* g_ws_client.port
port == client_url.port
\* g_ws_client.host
host == client_url.host
\* g_ws_client.path
path == client_url.path
\* return value of the last mcp_websocket_init call
init_ret == client_url.init_ret
\* g_ws_client.config.endpoint
config_endpoint == client_url.config_endpoint
\* g_ws_client.event_callback
event_callback == client_url.event_callback
\* position of a second thread calling start
apc2 == second.apc
\* position of a second websocket_main_task
tpc2 == second.tpc

NoConn == [pending |-> FALSE, result |-> 0, status |-> 0]
NoRx == [kind |-> "NONE", opcode |-> "CONT", data |-> <<>>]

Frame(type, data) == [type |-> type, data |-> data]

(* ----------------------------- helpers --------------------------------- *)

\* mutant: xQueueSend that never finds the queue full
enqueue_send_message_NoLimit(q, type, data) ==
    [queue |-> Append(q, Frame(type, data)), ret |-> "ESP_OK"]

\* mutant: a full queue gives up its oldest frame to the new one
enqueue_send_message_Overwrite(q, type, data) ==
    IF Len(q) < MaxQueue
    THEN [queue |-> Append(q, Frame(type, data)), ret |-> "ESP_OK"]
    ELSE [queue |-> Append(Tail(q), Frame(type, data)), ret |-> "ESP_OK"]

\* mutant: the frame is put at the front of the queue
enqueue_send_message_Front(q, type, data) ==
    IF Len(q) < MaxQueue
    THEN [queue |-> <<Frame(type, data)>> \o q, ret |-> "ESP_OK"]
    ELSE [queue |-> q, ret |-> "ESP_ERR_TIMEOUT"]

\* xQueueSend with the send timeout: the frame is appended when the queue has
\* room, and dropped with ESP_ERR_TIMEOUT when it is still full at the timeout
enqueue_send_message(q, type, data) ==
    IF Len(q) < MaxQueue
    THEN [queue |-> Append(q, Frame(type, data)), ret |-> "ESP_OK"]
    ELSE [queue |-> q, ret |-> "ESP_ERR_TIMEOUT"]

\* mutant: cleanup_transport without esp_transport_close
cleanup_transport_NoClose ==
    [queue |-> <<>>,
     open |-> open_sessions,
     list |-> FALSE,
     handle |-> IF transport_list THEN FALSE ELSE transport]

\* cleanup_transport: what it leaves of (send_queue, transport_list, transport,
\* open_sessions)
cleanup_transport ==
    [queue |-> <<>>,
     open |-> IF transport THEN 0 ELSE open_sessions,
     list |-> FALSE,
     handle |-> IF transport_list THEN FALSE ELSE transport]

\* the callback mcp_server.c registers, and the values event_callback can hold
ServerHandler == "mcp_websocket_event_handler"
Callbacks == {"NULL", ServerHandler, "other_handler"}

\* trigger_event with the callback of mcp_server.c: what an event leaves of
\* g_mcp_ws_state.connected (no other callback writes it, and a NULL
\* event_callback is not called)
trigger_event(event_type) ==
    IF event_callback # ServerHandler THEN srv_connected
    ELSE CASE event_type = "CONNECTED" -> TRUE
           [] event_type \in {"DISCONNECTED", "ERROR"} -> FALSE
           [] OTHER -> srv_connected

\* a uint32_t value as its two 16-bit halves (TLC's integers are narrower
\* than 2^32)
ToU32(x) == [hi |-> x \div Half, lo |-> x % Half]

\* (2 * u) in uint32_t arithmetic
DoubleU32(u) ==
    [hi |-> (2 * u.hi + (2 * u.lo) \div Half) % Half, lo |-> (2 * u.lo) % Half]

\* (u * 2^n) in uint32_t arithmetic
RECURSIVE ShlU32(_, _)
ShlU32(u, n) == IF n = 0 THEN u ELSE ShlU32(DoubleU32(u), n - 1)

\* the shifts (1 << n) can amount to: a shift of the int 1 by the width of int
\* or more is undefined, and a build either uses the low five bits of the
\* count or shifts everything out (a shift by the whole width)
ShiftCounts(n) ==
    IF n < IntBits THEN {n} ELSE {n % IntBits, IntBits}

\* if (delay_ms > 60000) delay_ms = 60000
CapDelay(u) ==
    IF u.hi > 0 \/ u.lo > MaxDelayMs THEN MaxDelayMs ELSE u.lo

\* mutant: the doubling starts one attempt early
BackoffDelays_Early(base, k) ==
    IF k > BackoffThreshold - 1
    THEN {CapDelay(ShlU32(ToU32(base), c)) :
            c \in ShiftCounts(k - (BackoffThreshold - 1))}
    ELSE {base}

\* the delay_ms values the Reconnecting state can compute for a base delay and
\* a reconnect counter (uint32_t arithmetic)
BackoffDelays(base, k) ==
    IF k > BackoffThreshold
    THEN {CapDelay(ShlU32(ToU32(base), c)) : c \in ShiftCounts(k - BackoffThreshold)}
    ELSE {base}

\* mutant: the handshake status is not looked at
ConnectingNextState_AnyStatus(result, status) ==
    IF result < 0 THEN "DISCONNECTED" ELSE "CONNECTED"

\* the state the Connecting handler sets for a connect result and a handshake status
ConnectingNextState(result, status) ==
    IF result < 0 THEN "DISCONNECTED"
    ELSE IF status = HandshakeOk THEN "CONNECTED" ELSE "DISCONNECTED"

\* mutant: the stop flag is read the wrong way round
DisconnectedNextState_Inverted(auto, stop) ==
    IF auto /\ stop THEN "RECONNECTING" ELSE "IDLE"

\* the state the Disconnected handler sets
DisconnectedNextState(auto, stop) ==
    IF auto /\ ~stop THEN "RECONNECTING" ELSE "IDLE"

\* the history of accepted frames after an enqueue that returned ret (the
\* histories are kept by the specifications that pass track = TRUE)
LogAccepted(track, ret, type, data) ==
    IF track /\ ret = "ESP_OK" THEN Append(accepted, Frame(type, data))
    ELSE accepted

\* a handler that raises MESSAGE_SENT after every successful write
message_sent_event_AnyType(type) == type \in {"TEXT", "PING", "PONG", "CLOSE"}

\* the Connected handler raises MESSAGE_SENT after a successful write of a
\* frame of this type
message_sent_event(type) == type = "TEXT"

\* the history of events after trigger_event(MCP_WS_EVENT_MESSAGE_SENT) was
\* or was not called for a written frame
LogSent(track, type) ==
    IF track /\ event_callback # "NULL" /\ message_sent_event(type)
    THEN [delivered EXCEPT !.sent = @ + 1]
    ELSE delivered

\* the history of events after trigger_event(MCP_WS_EVENT_MESSAGE_RECEIVED)
LogReceived(track) ==
    IF track /\ event_callback # "NULL"
    THEN [delivered EXCEPT !.received = @ + 1]
    ELSE delivered

\* a tracked enqueue is taken only while the history has room
LogRoom(track) == track => Len(accepted) < MaxAccepted

\* mutant: the callback re-arms the timer only after a successful enqueue
ping_timer_rearms_OnSuccess(ret) == ret = "ESP_OK"

\* ping_timer_callback ignores what enqueue_send_message returns and calls
\* esp_timer_start_once in every case
ping_timer_rearms(ret) == TRUE

\* mutant: a transport that cannot be built is tried again
InitializingNextState_Retry(ok) == IF ok THEN "CONNECTING" ELSE "DISCONNECTED"

\* the state the Initializing handler sets after create_transport_list
InitializingNextState(ok) == IF ok THEN "CONNECTING" ELSE "ERROR"

\* mutant: a disconnect that does not reconnect clears the counter
DisconnectedNextCount_Reset(auto, stop, k) ==
    IF auto /\ ~stop THEN k + 1 ELSE 0

\* the reconnect counter the Disconnected handler leaves
DisconnectedNextCount(auto, stop, k) ==
    IF auto /\ ~stop THEN k + 1 ELSE k

\* a C string is the sequence of its characters; a NULL pointer is NullStr
NullStr == <<"NULL">>

\* strncmp(s, p, strlen(p)) == 0
HasPrefix(s, p) == Len(s) >= Len(p) /\ SubSeq(s, 1, Len(p)) = p

\* strchr(s, c): the position of the first c in s, 0 for NULL
strchr(s, c) ==
    IF \E i \in DOMAIN s : s[i] = c
    THEN CHOOSE i \in DOMAIN s : s[i] = c /\ \A j \in 1..(i - 1) : s[j] # c
    ELSE 0

\* what strlcpy(dst, src, size) leaves in dst
strlcpy(src, size) == IF Len(src) < size THEN src ELSE SubSeq(src, 1, size - 1)

WsScheme == <<"w", "s", ":", "/", "/">>
WssScheme == <<"w", "s", "s", ":", "/", "/">>

\* strcpy(g_ws_client.path, "/mcp/")
DefaultPath == <<"/", "m", "c", "p", "/">>

DigitOf == ("0" :> 0) @@ ("1" :> 1) @@ ("2" :> 2) @@ ("3" :> 3) @@ ("4" :> 4) @@
           ("5" :> 5) @@ ("6" :> 6) @@ ("7" :> 7) @@ ("8" :> 8) @@ ("9" :> 9)

\* the value of the leading digits of s, after acc
RECURSIVE DigitsValue(_, _)
DigitsValue(s, acc) ==
    IF s = <<>> \/ Head(s) \notin DOMAIN DigitOf THEN acc
    ELSE DigitsValue(Tail(s), 10 * acc + DigitOf[Head(s)])

RECURSIVE SkipSpace(_)
SkipSpace(s) == IF s # <<>> /\ Head(s) = " " THEN SkipSpace(Tail(s)) ELSE s

\* atoi(s): white space, an optional sign, then the leading digits; what
\* follows the digits is ignored and no digit at all gives 0 (the port texts
\* of the model have at most five digits, so the value fits an int)
atoi(s) ==
    LET t == SkipSpace(s)
    IN IF t # <<>> /\ Head(t) = "-" THEN 0 - DigitsValue(Tail(t), 0)
       ELSE IF t # <<>> /\ Head(t) = "+" THEN DigitsValue(Tail(t), 0)
       ELSE DigitsValue(t, 0)

\* mutant: the scheme is matched without its last '/'
scheme_len_Loose(url) ==
    IF HasPrefix(url, SubSeq(WssScheme, 1, WssSchemeLen - 1)) THEN WssSchemeLen
    ELSE IF HasPrefix(url, SubSeq(WsScheme, 1, WsSchemeLen - 1)) THEN WsSchemeLen
    ELSE 0

\* the number of characters parse_url skips for the scheme: 6 for "wss://",
\* 5 for "ws://", and 0 when it rejects the scheme
scheme_len(url) ==
    IF HasPrefix(url, WssScheme) THEN WssSchemeLen
    ELSE IF HasPrefix(url, WsScheme) THEN WsSchemeLen
    ELSE 0

\* mutant: every scheme gets the port of ws
default_port_Plain(ssl) == DefaultPortWs

\* the port parse_url sets with the scheme
default_port(ssl) == IF ssl THEN DefaultPortWss ELSE DefaultPortWs

\* if (parsed_port > 0 && parsed_port <= 65535)
port_accepted(parsed_port) == parsed_port > 0 /\ parsed_port <= MaxPort

\* what the allocations of mcp_websocket_init can come to: all succeed, or the
\* first that fails is url_copy, host or path, the send queue or the timer
AllocOutcomes == {"ok", "no_url_copy", "no_host_path", "no_queue"}

\* parse_url(endpoint): its return value and what it leaves of use_ssl, port,
\* host and path
parse_url(e, alloc) ==
    LET url_copy == strlcpy(e, MCP_WS_MAX_URL_LEN)
        n == scheme_len(url_copy)
        ssl == n = WssSchemeLen
        work_url == SubSeq(url_copy, n + 1, Len(url_copy))
        path_start == strchr(work_url, "/")
        host_len == path_start - 1
        new_path == IF path_start > 0
                    THEN strlcpy(SubSeq(work_url, path_start, Len(work_url)),
                                 MCP_WS_MAX_PATH_LEN)
                    ELSE DefaultPath
        new_host == IF path_start > 0 THEN SubSeq(work_url, 1, host_len)
                    ELSE strlcpy(work_url, MCP_WS_MAX_HOST_LEN)
        port_start == strchr(new_host, ":")
        port_text == SubSeq(new_host, port_start + 1, Len(new_host))
        parsed_port == atoi(port_text)
        untouched(r) == [ret |-> r, use_ssl |-> use_ssl, port |-> port,
                         host |-> host, path |-> path]
        freed(r) == [ret |-> r, use_ssl |-> ssl, port |-> default_port(ssl),
                     host |-> NullStr, path |-> NullStr]
    IN IF alloc = "no_url_copy" THEN untouched("ESP_ERR_NO_MEM")
       ELSE IF n = 0 THEN untouched("ESP_ERR_INVALID_ARG")
       ELSE IF alloc = "no_host_path" THEN freed("ESP_ERR_NO_MEM")
       ELSE IF path_start > 0 /\ ~(host_len > 0 /\ host_len < MCP_WS_MAX_HOST_LEN)
       THEN freed("ESP_ERR_INVALID_ARG")
       ELSE IF port_start = 0
       THEN [ret |-> "ESP_OK", use_ssl |-> ssl, port |-> default_port(ssl),
             host |-> new_host, path |-> new_path]
       ELSE IF port_accepted(parsed_port)
       THEN [ret |-> "ESP_OK", use_ssl |-> ssl, port |-> parsed_port,
             host |-> SubSeq(new_host, 1, port_start - 1), path |-> new_path]
       ELSE freed("ESP_ERR_INVALID_ARG")

\* mutant: only a result below -1 counts as a read error
read_failed_Lenient(len) == len < 0 - 1

\* else if (len < 0 && len != ESP_ERR_TIMEOUT), for the len of a read
read_failed(len) == len < 0 /\ len # ESP_ERR_TIMEOUT

(* ------------------------------- Init ---------------------------------- *)

\* static mcp_websocket_client_t g_ws_client = {0}
Init ==
    /\ initialized = FALSE
    /\ config_auto_reconnect = FALSE
    /\ config_reconnect_delay_ms = 0
    /\ state = "IDLE"
    /\ should_stop = FALSE
    /\ auto_reconnect_enabled = FALSE
    /\ transport_list = FALSE
    /\ transport = FALSE
    /\ open_sessions = 0
    /\ main_task = FALSE
    /\ tpc = "none"
    /\ send_queue = <<>>
    /\ timer_armed = FALSE
    /\ timer_cb = "idle"
    /\ sent_messages = 0
    /\ received_messages = 0
    /\ reconnect_count = 0
    /\ delay_ms = 0
    /\ conn = NoConn
    /\ rx = NoRx
    /\ apc = "idle"
    /\ prod_pc = "idle"
    /\ send_ret = "NONE"
    /\ srv_connected = FALSE
    /\ accepted = <<>>
    /\ written = <<>>
    /\ delivered = [sent |-> 0, received |-> 0]
    /\ client_url = [endpoint |-> <<>>, use_ssl |-> FALSE, port |-> 0,
                      host |-> NullStr, path |-> NullStr, init_ret |-> "NONE",
                      config_endpoint |-> <<>>, event_callback |-> "NULL"]
    /\ second = [apc |-> "idle", tpc |-> "none"]

(* ------------------------ the control loop task ------------------------ *)

\* websocket_main_task, entry: the receive buffer is allocated, or the task
\* sets the state to Error and deletes itself (main_task is left as it is)
LoopEntryWith(ok) ==
    /\ tpc = "entry"
    /\ IF ok THEN /\ tpc' = "top"
                  /\ state' = state
             ELSE /\ tpc' = "none"
                  /\ state' = "ERROR"
    /\ UNCHANGED <<cfgVars, flagVars, transVars, main_task, send_queue, timerVars,
                   statVars, delay_ms, conn, rx, apc, prodVars, srv_connected>>
    /\ UNCHANGED logVars
    /\ UNCHANGED <<urlVars, raceVars>>

LoopEntry == \E ok \in BOOLEAN : LoopEntryWith(ok)

\* while (!g_ws_client.should_stop)
LoopTop ==
    /\ tpc = "top"
    /\ tpc' = IF should_stop THEN "exit" ELSE "switch"
    /\ UNCHANGED <<cfgVars, state, flagVars, transVars, main_task, send_queue,
                   timerVars, statVars, delay_ms, conn, rx, apc, prodVars,
                   srv_connected>>
    /\ UNCHANGED logVars
    /\ UNCHANGED <<urlVars, raceVars>>

\* switch (g_ws_client.state): Idle only sleeps; a state without a case
\* (Disconnecting) sets the state to Error
LoopSwitch ==
    /\ tpc = "switch"
    /\ tpc' = CASE state = "IDLE" -> "top"
                [] state = "INITIALIZING" -> "initializing"
                [] state = "CONNECTING" -> "connecting"
                [] state = "CONNECTED" -> "drain"
                [] state = "DISCONNECTED" -> "disconnected"
                [] state = "RECONNECTING" -> "reconnecting"
                [] state = "ERROR" -> "error"
                [] OTHER -> "top"
    /\ state' = IF state = "DISCONNECTING" THEN "ERROR" ELSE state
    /\ UNCHANGED <<cfgVars, flagVars, transVars, main_task, send_queue, timerVars,
                   statVars, delay_ms, conn, rx, apc, prodVars, srv_connected>>
    /\ UNCHANGED logVars
    /\ UNCHANGED <<urlVars, raceVars>>

\* case MCP_WS_STATE_INITIALIZING: create_transport_list (cleanup_transport,
\* then the new list and handle; a failure is one of the tcp, ssl or ws
\* transport after the list was created) and the state it leads to
LoopInitializingWith(ok) ==
    /\ tpc = "initializing"
    /\ send_queue' = cleanup_transport.queue
    /\ open_sessions' = cleanup_transport.open
    /\ transport_list' = TRUE
    /\ transport' = IF ok THEN TRUE ELSE cleanup_transport.handle
    /\ state' = InitializingNextState(ok)
    /\ tpc' = "top"
    /\ UNCHANGED <<cfgVars, flagVars, main_task, timerVars, statVars, delay_ms,
                   conn, rx, apc, prodVars, srv_connected>>
    /\ UNCHANGED logVars
    /\ UNCHANGED <<urlVars, raceVars>>

LoopInitializing == \E ok \in BOOLEAN : LoopInitializingWith(ok)

\* esp_transport_connect returns to the Connecting handler: a NULL handle
\* fails at once; otherwise the connect fails, or succeeds with a handshake
\* status (failures stop once the reconnect counter is at cap)
TransportConnectReturns(cap) ==
    /\ tpc = "connecting"
    /\ ~conn.pending
    /\ \E r \in {-1, 0}, s \in {HandshakeOk, HandshakeUnauthorized} :
         /\ ~transport => r < 0
         /\ (r < 0 \/ s # HandshakeOk) => (~transport \/ reconnect_count < cap)
         /\ r < 0 => s = HandshakeUnauthorized
         /\ conn' = [pending |-> TRUE, result |-> r,
                     status |-> IF r < 0 THEN 0 ELSE s]
         /\ open_sessions' = IF r < 0 THEN open_sessions ELSE open_sessions + 1
    /\ UNCHANGED <<cfgVars, state, flagVars, transport_list, transport, main_task,
                   tpc, send_queue, timerVars, statVars, delay_ms, rx, apc,
                   prodVars, srv_connected>>
    /\ UNCHANGED logVars
    /\ UNCHANGED <<urlVars, raceVars>>

\* case MCP_WS_STATE_CONNECTING, after esp_transport_connect returned
LoopConnecting ==
    /\ tpc = "connecting"
    /\ conn.pending
    /\ state' = ConnectingNextState(conn.result, conn.status)
    /\ IF conn.result >= 0 /\ conn.status = HandshakeOk
       THEN /\ reconnect_count' = 0
            /\ srv_connected' = trigger_event("CONNECTED")
            /\ timer_armed' = TRUE
       ELSE UNCHANGED <<reconnect_count, srv_connected, timer_armed>>
    /\ conn' = NoConn
    /\ tpc' = "top"
    /\ UNCHANGED <<cfgVars, flagVars, transVars, main_task, send_queue, timer_cb,
                   sent_messages, received_messages, delay_ms, rx, apc, prodVars>>
    /\ UNCHANGED logVars
    /\ UNCHANGED <<urlVars, raceVars>>

\* case MCP_WS_STATE_CONNECTED, one turn of the send queue drain: the head
\* frame is taken and written (the write succeeds only on an open session and
\* while the sent counter is below its bound); an empty queue ends the drain
LoopDrainWith(track) ==
    /\ tpc = "drain"
    /\ IF send_queue = <<>>
       THEN /\ tpc' = IF transport THEN "read" ELSE "top"
            /\ UNCHANGED <<state, send_queue, sent_messages, written, delivered>>
       ELSE /\ send_queue' = Tail(send_queue)
            /\ tpc' = "drain"
            /\ IF transport
               THEN \E ok \in BOOLEAN :
                      /\ ok => /\ open_sessions > 0
                               /\ sent_messages <
                                    (IF track THEN MaxAccepted ELSE MaxCount)
                      /\ state' = IF ok THEN state ELSE "DISCONNECTED"
                      /\ sent_messages' = IF ok THEN sent_messages + 1
                                          ELSE sent_messages
                      /\ written' = IF ok /\ track
                                    THEN Append(written, Head(send_queue))
                                    ELSE written
                      /\ delivered' = IF ok
                                      THEN LogSent(track, Head(send_queue).type)
                                      ELSE delivered
               ELSE UNCHANGED <<state, sent_messages, written, delivered>>
    /\ UNCHANGED <<cfgVars, flagVars, transVars, main_task, timerVars,
                   received_messages, reconnect_count, delay_ms, conn, rx, apc,
                   prodVars, srv_connected, accepted>>
    /\ UNCHANGED <<urlVars, raceVars>>

LoopDrain == LoopDrainWith(FALSE)

\* esp_transport_read returns something else than a timeout: an error, or a
\* frame with its opcode and payload (data frames stop once the received
\* counter is at its bound)
TransportReadReturns ==
    /\ tpc = "read"
    /\ rx.kind = "NONE"
    /\ \/ rx' = [kind |-> "ERROR", opcode |-> "CONT", data |-> <<>>]
       \/ /\ open_sessions > 0
          /\ \E op \in Opcodes, d \in RxPayloads :
               /\ op \in {"TEXT", "BINARY"} => received_messages < MaxCount
               /\ rx' = [kind |-> "FRAME", opcode |-> op, data |-> d]
    /\ UNCHANGED <<cfgVars, state, flagVars, transVars, main_task, tpc, send_queue,
                   timerVars, statVars, delay_ms, conn, apc, prodVars,
                   srv_connected>>
    /\ UNCHANGED logVars
    /\ UNCHANGED <<urlVars, raceVars>>

\* case MCP_WS_STATE_CONNECTED, after esp_transport_read returned len: a
\* timeout or an empty payload (len 0) does nothing, len < 0 disconnects, and
\* len > 0 is handled by opcode; the event handler may answer a data frame
\* with a send_text from inside the loop
LoopReadWith(track) ==
    /\ tpc = "read"
    /\ tpc' = "top"
    /\ rx' = NoRx
    /\ LET len == IF rx.kind = "ERROR" THEN -1
                  ELSE IF rx.kind = "FRAME" THEN Len(rx.data) ELSE 0
       IN CASE read_failed(len) ->
                 /\ state' = "DISCONNECTED"
                 /\ UNCHANGED <<send_queue, received_messages, accepted, delivered>>
            [] len > 0 /\ rx.opcode \in {"TEXT", "BINARY"} ->
                 /\ received_messages' = received_messages + 1
                 /\ delivered' = LogReceived(track)
                 /\ \E respond \in BOOLEAN, d \in TextPayloads :
                      LET r == enqueue_send_message(send_queue, "TEXT", d)
                      IN IF respond
                         THEN /\ LogRoom(track)
                              /\ send_queue' = r.queue
                              /\ accepted' = LogAccepted(track, r.ret, "TEXT", d)
                         ELSE UNCHANGED <<send_queue, accepted>>
                 /\ UNCHANGED state
            [] len > 0 /\ rx.opcode = "CLOSE" ->
                 /\ state' = "DISCONNECTED"
                 /\ UNCHANGED <<send_queue, received_messages, accepted, delivered>>
            [] len > 0 /\ rx.opcode = "PING" ->
                 LET r == enqueue_send_message(send_queue, "PONG", rx.data)
                 IN /\ LogRoom(track)
                    /\ send_queue' = r.queue
                    /\ accepted' = LogAccepted(track, r.ret, "PONG", rx.data)
                    /\ UNCHANGED <<state, received_messages, delivered>>
            [] OTHER ->
                 UNCHANGED <<state, send_queue, received_messages, accepted,
                             delivered>>
    /\ UNCHANGED <<cfgVars, flagVars, transVars, main_task, timerVars,
                   sent_messages, reconnect_count, delay_ms, conn, apc, prodVars,
                   srv_connected, written>>
    /\ UNCHANGED <<urlVars, raceVars>>

LoopRead == LoopReadWith(FALSE)

\* case MCP_WS_STATE_DISCONNECTED
LoopDisconnected ==
    /\ tpc = "disconnected"
    /\ timer_armed' = FALSE
    /\ send_queue' = cleanup_transport.queue
    /\ open_sessions' = cleanup_transport.open
    /\ transport_list' = cleanup_transport.list
    /\ transport' = cleanup_transport.handle
    /\ srv_connected' = trigger_event("DISCONNECTED")
    /\ state' = DisconnectedNextState(auto_reconnect_enabled, should_stop)
    /\ reconnect_count' = DisconnectedNextCount(auto_reconnect_enabled,
                                                should_stop, reconnect_count)
    /\ tpc' = "top"
    /\ UNCHANGED <<cfgVars, flagVars, main_task, timer_cb, sent_messages,
                   received_messages, delay_ms, conn, rx, apc, prodVars>>
    /\ UNCHANGED logVars
    /\ UNCHANGED <<urlVars, raceVars>>

\* case MCP_WS_STATE_RECONNECTING, up to the vTaskDelay(delay_ms)
LoopReconnecting ==
    /\ tpc = "reconnecting"
    /\ delay_ms' \in BackoffDelays(config_reconnect_delay_ms, reconnect_count)
    /\ tpc' = "backoff"
    /\ UNCHANGED <<cfgVars, state, flagVars, transVars, main_task, send_queue,
                   timerVars, statVars, conn, rx, apc, prodVars, srv_connected>>
    /\ UNCHANGED logVars
    /\ UNCHANGED <<urlVars, raceVars>>

\* case MCP_WS_STATE_RECONNECTING, after the vTaskDelay
LoopBackoffDone ==
    /\ tpc = "backoff"
    /\ state' = "INITIALIZING"
    /\ delay_ms' = 0
    /\ tpc' = "top"
    /\ UNCHANGED <<cfgVars, flagVars, transVars, main_task, send_queue, timerVars,
                   statVars, conn, rx, apc, prodVars, srv_connected>>
    /\ UNCHANGED logVars
    /\ UNCHANGED <<urlVars, raceVars>>

\* case MCP_WS_STATE_ERROR
LoopError ==
    /\ tpc = "error"
    /\ send_queue' = cleanup_transport.queue
    /\ open_sessions' = cleanup_transport.open
    /\ transport_list' = cleanup_transport.list
    /\ transport' = cleanup_transport.handle
    /\ srv_connected' = trigger_event("ERROR")
    /\ tpc' = "top"
    /\ UNCHANGED <<cfgVars, state, flagVars, main_task, timerVars, statVars,
                   delay_ms, conn, rx, apc, prodVars>>
    /\ UNCHANGED logVars
    /\ UNCHANGED <<urlVars, raceVars>>

\* after the loop: the send queue is emptied, main_task is cleared and the task
\* deletes itself
LoopExit ==
    /\ tpc = "exit"
    /\ send_queue' = <<>>
    /\ main_task' = FALSE
    /\ tpc' = "none"
    /\ UNCHANGED <<cfgVars, state, flagVars, transVars, timerVars, statVars,
                   delay_ms, conn, rx, apc, prodVars, srv_connected>>
    /\ UNCHANGED logVars
    /\ UNCHANGED <<urlVars, raceVars>>

(* --------------------- the thread calling the API ---------------------- *)

\* mcp_websocket_init with a configuration (auto_reconnect, reconnect_delay_ms,
\* endpoint): an empty endpoint is refused at once; otherwise the configuration
\* is copied, the endpoint parsed, the queue and the timer created and the
\* client marked initialized, each step only if the one before succeeded
InitCallWith(delays, urls) ==
    /\ apc = "idle"
    /\ ~initialized
    /\ \E auto \in BOOLEAN, d \in delays, e \in urls, alloc \in AllocOutcomes :
         IF e = <<>>
         THEN /\ client_url' = [client_url EXCEPT
                                   !.init_ret = "ESP_ERR_INVALID_ARG",
                                   !.endpoint = e]
              /\ UNCHANGED <<cfgVars, auto_reconnect_enabled, state>>
         ELSE LET p == parse_url(e, alloc)
                  ret == IF p.ret # "ESP_OK" THEN p.ret
                         ELSE IF alloc = "no_queue" THEN "ESP_ERR_NO_MEM"
                         ELSE "ESP_OK"
              IN /\ config_auto_reconnect' = auto
                 /\ auto_reconnect_enabled' = auto
                 /\ config_reconnect_delay_ms' =
                      IF d = 0 THEN MCP_WS_RECONNECT_DELAY_MS ELSE d
                 /\ client_url' = [endpoint |-> e, use_ssl |-> p.use_ssl,
                                    port |-> p.port, host |-> p.host,
                                    path |-> p.path, init_ret |-> ret,
                                    config_endpoint |-> e,
                                    event_callback |-> ServerHandler]
                 /\ initialized' = (ret = "ESP_OK")
                 /\ state' = IF ret = "ESP_OK" THEN "IDLE" ELSE state
    /\ UNCHANGED <<should_stop, transVars, main_task, tpc, send_queue, timerVars,
                   statVars, delay_ms, conn, rx, apc, prodVars, srv_connected>>
    /\ UNCHANGED logVars
    /\ UNCHANGED raceVars

\* mcp_websocket_start is called on an initialized client (the caller asks for
\* no start once the reconnect counter is at its bound)
StartCall ==
    /\ apc = "idle"
    /\ initialized
    /\ reconnect_count < MaxReconnect
    /\ apc' = "start"
    /\ UNCHANGED <<cfgVars, state, flagVars, transVars, main_task, tpc, send_queue,
                   timerVars, statVars, delay_ms, conn, rx, prodVars,
                   srv_connected>>
    /\ UNCHANGED logVars
    /\ UNCHANGED <<urlVars, raceVars>>

\* mcp_websocket_start is called on a client that is not initialized and
\* returns ESP_ERR_INVALID_STATE
StartNotInitialized ==
    /\ apc = "idle"
    /\ ~initialized
    /\ apc' = "start_invalid_state"
    /\ UNCHANGED <<cfgVars, state, flagVars, transVars, main_task, tpc, send_queue,
                   timerVars, statVars, delay_ms, conn, rx, prodVars,
                   srv_connected>>
    /\ UNCHANGED logVars
    /\ UNCHANGED <<urlVars, raceVars>>

\* the caller has the ESP_ERR_INVALID_STATE of start
StartErrorReturned ==
    /\ apc = "start_invalid_state"
    /\ apc' = "idle"
    /\ UNCHANGED <<cfgVars, state, flagVars, transVars, main_task, tpc, send_queue,
                   timerVars, statVars, delay_ms, conn, rx, prodVars,
                   srv_connected>>
    /\ UNCHANGED logVars
    /\ UNCHANGED <<urlVars, raceVars>>

\* mcp_websocket_start finds main_task set: "already running", ESP_OK
StartAlreadyRunning ==
    /\ apc = "start"
    /\ initialized
    /\ main_task
    /\ apc' = "idle"
    /\ UNCHANGED <<cfgVars, state, flagVars, transVars, main_task, tpc, send_queue,
                   timerVars, statVars, delay_ms, conn, rx, prodVars,
                   srv_connected>>
    /\ UNCHANGED logVars
    /\ UNCHANGED <<urlVars, raceVars>>

\* mcp_websocket_start with no task running: the flags and xTaskCreate (a
\* failed creation returns ESP_ERR_NO_MEM)
StartCreate ==
    /\ apc = "start"
    /\ initialized
    /\ ~main_task
    /\ should_stop' = FALSE
    /\ auto_reconnect_enabled' = config_auto_reconnect
    /\ \E created \in BOOLEAN :
         IF created
         THEN /\ main_task' = TRUE
              /\ tpc' = "entry"
              /\ apc' = "start_set"
         ELSE /\ apc' = "idle"
              /\ UNCHANGED <<main_task, tpc>>
    /\ UNCHANGED <<cfgVars, state, transVars, send_queue, timerVars, statVars,
                   delay_ms, conn, rx, prodVars, srv_connected>>
    /\ UNCHANGED logVars
    /\ UNCHANGED <<urlVars, raceVars>>

\* mcp_websocket_start after xTaskCreate: set_state(MCP_WS_STATE_INITIALIZING)
StartSetState ==
    /\ apc = "start_set"
    /\ state' = "INITIALIZING"
    /\ apc' = "idle"
    /\ UNCHANGED <<cfgVars, flagVars, transVars, main_task, tpc, send_queue,
                   timerVars, statVars, delay_ms, conn, rx, prodVars,
                   srv_connected>>
    /\ UNCHANGED logVars
    /\ UNCHANGED <<urlVars, raceVars>>

\* mcp_websocket_stop: the flags, esp_timer_stop and the test of the state
StopRequest ==
    /\ apc = "idle"
    /\ initialized
    /\ should_stop' = TRUE
    /\ auto_reconnect_enabled' = FALSE
    /\ timer_armed' = FALSE
    /\ apc' = IF state = "CONNECTED" THEN "stop_close" ELSE "stop_set"
    /\ UNCHANGED <<cfgVars, state, transVars, main_task, tpc, send_queue, timer_cb,
                   statVars, delay_ms, conn, rx, prodVars, srv_connected>>
    /\ UNCHANGED logVars
    /\ UNCHANGED <<urlVars, raceVars>>

\* mcp_websocket_stop: enqueue_send_message(MCP_WS_MSG_TYPE_CLOSE, NULL, 0)
StopEnqueueCloseWith(track) ==
    /\ apc = "stop_close"
    /\ LogRoom(track)
    /\ LET r == enqueue_send_message(send_queue, "CLOSE", <<>>)
       IN /\ send_queue' = r.queue
          /\ accepted' = LogAccepted(track, r.ret, "CLOSE", <<>>)
    /\ apc' = "stop_set"
    /\ UNCHANGED <<cfgVars, state, flagVars, transVars, main_task, tpc, timerVars,
                   statVars, delay_ms, conn, rx, prodVars, srv_connected, written,
                   delivered>>
    /\ UNCHANGED <<urlVars, raceVars>>

StopEnqueueClose == StopEnqueueCloseWith(FALSE)

\* mcp_websocket_stop: set_state(MCP_WS_STATE_DISCONNECTED)
StopSetState ==
    /\ apc = "stop_set"
    /\ state' = "DISCONNECTED"
    /\ apc' = "stop_wait"
    /\ UNCHANGED <<cfgVars, flagVars, transVars, main_task, tpc, send_queue,
                   timerVars, statVars, delay_ms, conn, rx, prodVars,
                   srv_connected>>
    /\ UNCHANGED logVars
    /\ UNCHANGED <<urlVars, raceVars>>

\* mcp_websocket_stop: the wait ends because main_task is NULL, then
\* cleanup_transport
StopTaskEnded ==
    /\ apc = "stop_wait"
    /\ ~main_task
    /\ send_queue' = cleanup_transport.queue
    /\ open_sessions' = cleanup_transport.open
    /\ transport_list' = cleanup_transport.list
    /\ transport' = cleanup_transport.handle
    /\ apc' = "idle"
    /\ UNCHANGED <<cfgVars, state, flagVars, main_task, tpc, timerVars, statVars,
                   delay_ms, conn, rx, prodVars, srv_connected>>
    /\ UNCHANGED logVars
    /\ UNCHANGED <<urlVars, raceVars>>

\* mcp_websocket_stop: the wait times out with main_task set and
\* vTaskDelete(main_task) deletes the task where it stands, then
\* cleanup_transport.  A task that deleted itself at entry left main_task
\* dangling: deleting it again either does nothing visible or faults, and
\* then stop does not return
StopForceDelete ==
    /\ apc = "stop_wait"
    /\ main_task
    /\ \E fault \in BOOLEAN :
         /\ fault => tpc = "none"
         /\ IF fault
            THEN /\ apc' = "fault"
                 /\ UNCHANGED <<main_task, tpc, conn, rx, delay_ms, send_queue,
                                transVars>>
            ELSE /\ main_task' = FALSE
                 /\ tpc' = "none"
                 /\ conn' = NoConn
                 /\ rx' = NoRx
                 /\ delay_ms' = 0
                 /\ send_queue' = cleanup_transport.queue
                 /\ open_sessions' = cleanup_transport.open
                 /\ transport_list' = cleanup_transport.list
                 /\ transport' = cleanup_transport.handle
                 /\ apc' = "idle"
    /\ UNCHANGED <<cfgVars, state, flagVars, timerVars, statVars, prodVars,
                   srv_connected>>
    /\ UNCHANGED logVars
    /\ UNCHANGED <<urlVars, raceVars>>

(* ------------------ a second thread calling start ---------------------- *)

\* mcp_websocket_start is called by a second thread, on an initialized client
Start2Call ==
    /\ apc2 = "idle"
    /\ initialized
    /\ reconnect_count < MaxReconnect
    /\ second' = [second EXCEPT !.apc = "start"]
    /\ UNCHANGED <<cfgVars, state, flagVars, transVars, main_task, tpc, send_queue,
                   timerVars, statVars, delay_ms, conn, rx, apc, prodVars,
                   srv_connected>>
    /\ UNCHANGED <<logVars, urlVars>>

\* the second thread reads main_task: "already running" when it is set
Start2Check ==
    /\ apc2 = "start"
    /\ second' = [second EXCEPT
                     !.apc = IF main_task THEN "idle" ELSE "start_create"]
    /\ UNCHANGED <<cfgVars, state, flagVars, transVars, main_task, tpc, send_queue,
                   timerVars, statVars, delay_ms, conn, rx, apc, prodVars,
                   srv_connected>>
    /\ UNCHANGED <<logVars, urlVars>>

\* the second thread, having read main_task as NULL: the flags and
\* xTaskCreate, which writes the handle of the task it creates to main_task;
\* the new task is the only loop task, or a second one next to the task the
\* first thread created in between (the second task's steps are not followed)
Start2Create ==
    /\ apc2 = "start_create"
    /\ should_stop' = FALSE
    /\ auto_reconnect_enabled' = config_auto_reconnect
    /\ \E created \in BOOLEAN :
         IF created
         THEN /\ main_task' = TRUE
              /\ IF tpc = "none"
                 THEN /\ tpc' = "entry"
                      /\ second' = [second EXCEPT !.apc = "start_set"]
                 ELSE /\ tpc' = tpc
                      /\ second' = [apc |-> "start_set", tpc |-> "entry"]
         ELSE /\ second' = [second EXCEPT !.apc = "idle"]
              /\ UNCHANGED <<main_task, tpc>>
    /\ UNCHANGED <<cfgVars, state, transVars, send_queue, timerVars, statVars,
                   delay_ms, conn, rx, apc, prodVars, srv_connected>>
    /\ UNCHANGED <<logVars, urlVars>>

\* the second thread: set_state(MCP_WS_STATE_INITIALIZING)
Start2SetState ==
    /\ apc2 = "start_set"
    /\ state' = "INITIALIZING"
    /\ second' = [second EXCEPT !.apc = "idle"]
    /\ UNCHANGED <<cfgVars, flagVars, transVars, main_task, tpc, send_queue,
                   timerVars, statVars, delay_ms, conn, rx, apc, prodVars,
                   srv_connected>>
    /\ UNCHANGED <<logVars, urlVars>>

(* ------------------------- the keepalive timer ------------------------- *)

\* the one-shot timer expires: ping_timer_callback starts
TimerFire ==
    /\ timer_armed
    /\ timer_cb = "idle"
    /\ timer_armed' = FALSE
    /\ timer_cb' = "enqueue"
    /\ UNCHANGED <<cfgVars, state, flagVars, transVars, main_task, tpc, send_queue,
                   statVars, delay_ms, conn, rx, apc, prodVars, srv_connected>>
    /\ UNCHANGED logVars
    /\ UNCHANGED <<urlVars, raceVars>>

\* ping_timer_callback: enqueue_send_message(MCP_WS_MSG_TYPE_PING, ping_data, 4)
TimerEnqueueWith(track) ==
    /\ timer_cb = "enqueue"
    /\ LogRoom(track)
    /\ LET r == enqueue_send_message(send_queue, "PING", ping_data)
       IN /\ send_queue' = r.queue
          /\ accepted' = LogAccepted(track, r.ret, "PING", ping_data)
          /\ timer_cb' = IF ping_timer_rearms(r.ret) THEN "rearm" ELSE "idle"
    /\ UNCHANGED <<cfgVars, state, flagVars, transVars, main_task, tpc, timer_armed,
                   statVars, delay_ms, conn, rx, apc, prodVars, srv_connected,
                   written, delivered>>
    /\ UNCHANGED <<urlVars, raceVars>>

TimerEnqueue == TimerEnqueueWith(FALSE)

\* ping_timer_callback: esp_timer_start_once
TimerRearm ==
    /\ timer_cb = "rearm"
    /\ timer_armed' = TRUE
    /\ timer_cb' = "idle"
    /\ UNCHANGED <<cfgVars, state, flagVars, transVars, main_task, tpc, send_queue,
                   statVars, delay_ms, conn, rx, apc, prodVars, srv_connected>>
    /\ UNCHANGED logVars
    /\ UNCHANGED <<urlVars, raceVars>>

(* ---------------------- the thread calling send_text ------------------- *)

\* mcp_websocket_send_text is called
ProducerCall ==
    /\ prod_pc = "idle"
    /\ prod_pc' = "enqueue"
    /\ send_ret' = "NONE"
    /\ UNCHANGED <<cfgVars, state, flagVars, transVars, main_task, tpc, send_queue,
                   timerVars, statVars, delay_ms, conn, rx, apc, srv_connected>>
    /\ UNCHANGED logVars
    /\ UNCHANGED <<urlVars, raceVars>>

\* mcp_websocket_send_text returns what enqueue_send_message returns
ProducerEnqueueWith(track) ==
    /\ prod_pc = "enqueue"
    /\ prod_pc' = "idle"
    /\ IF ~initialized
       THEN /\ send_ret' = "ESP_ERR_INVALID_STATE"
            /\ UNCHANGED <<send_queue, accepted>>
       ELSE \E d \in TextPayloads :
              LET r == enqueue_send_message(send_queue, "TEXT", d)
              IN /\ LogRoom(track)
                 /\ send_queue' = r.queue
                 /\ send_ret' = r.ret
                 /\ accepted' = LogAccepted(track, r.ret, "TEXT", d)
    /\ UNCHANGED <<cfgVars, state, flagVars, transVars, main_task, tpc, timerVars,
                   statVars, delay_ms, conn, rx, apc, srv_connected, written,
                   delivered>>
    /\ UNCHANGED <<urlVars, raceVars>>

ProducerEnqueue == ProducerEnqueueWith(FALSE)

(* --------------------------- specifications ---------------------------- *)

\* the reconnect base delay mcp_server_start_websocket configures
MainDelays == {5000}

\* an endpoint parse_url accepts, ws://h, and one it rejects, h/
MainUrls == {WsScheme \o <<"h">>, <<"h", "/">>}

InitCall == InitCallWith(MainDelays, MainUrls)

LoopStep ==
    \/ LoopEntry
    \/ LoopTop
    \/ LoopSwitch
    \/ LoopInitializing
    \/ LoopConnecting
    \/ LoopDrain
    \/ LoopRead
    \/ LoopDisconnected
    \/ LoopReconnecting
    \/ LoopBackoffDone
    \/ LoopError
    \/ LoopExit

Next ==
    \/ InitCall
    \/ StartCall
    \/ StartAlreadyRunning
    \/ StartCreate
    \/ StartSetState
    \/ StopRequest
    \/ StopEnqueueClose
    \/ StopSetState
    \/ StopTaskEnded
    \/ StopForceDelete
    \/ LoopStep
    \/ TransportConnectReturns(MaxReconnect)
    \/ TransportReadReturns
    \/ TimerFire
    \/ TimerEnqueue
    \/ TimerRearm
    \/ ProducerCall
    \/ ProducerEnqueue

Spec == Init /\ [][Next]_vars

\* the control loop with transport construction succeeding
LoopStepOk ==
    \/ LoopEntry
    \/ LoopTop
    \/ LoopSwitch
    \/ LoopInitializingWith(TRUE)
    \/ LoopConnecting
    \/ LoopDrain
    \/ LoopRead
    \/ LoopDisconnected
    \/ LoopReconnecting
    \/ LoopBackoffDone

\* init, one start and the control loop against a transport that fails up to
\* MaxK times in a row, for every base delay; no stop, no other producer
NextBackoff ==
    \/ InitCallWith(BaseDelays, MainUrls)
    \/ StartCall
    \/ StartAlreadyRunning
    \/ StartCreate
    \/ StartSetState
    \/ LoopStepOk
    \/ TransportConnectReturns(MaxK)
    \/ TransportReadReturns

SpecBackoff == Init /\ [][NextBackoff]_vars

\* the same against a transport that fails up to MaxFailures times in a row
NextLive ==
    \/ InitCallWith(BaseDelays, MainUrls)
    \/ StartCall
    \/ StartAlreadyRunning
    \/ StartCreate
    \/ StartSetState
    \/ LoopStepOk
    \/ TransportConnectReturns(MaxFailures)
    \/ TransportReadReturns

\* the scheduler runs the loop task, every blocking call of the loop has a
\* timeout, esp_transport_connect returns, and start returns
SpecLive ==
    /\ Init
    /\ [][NextLive]_vars
    /\ WF_vars(LoopStepOk)
    /\ WF_vars(TransportConnectReturns(MaxFailures))
    /\ WF_vars(StartSetState)

\* the control loop keeping the histories (its receive buffer is allocated
\* and transport construction succeeds)
LoopStepLogged ==
    \/ LoopEntryWith(TRUE)
    \/ LoopTop
    \/ LoopSwitch
    \/ LoopInitializingWith(TRUE)
    \/ LoopConnecting
    \/ LoopDrainWith(TRUE)
    \/ LoopReadWith(TRUE)
    \/ LoopDisconnected
    \/ LoopReconnecting
    \/ LoopBackoffDone
    \/ LoopExit

StopEnqueueCloseLogged == StopEnqueueCloseWith(TRUE)

TimerEnqueueLogged == TimerEnqueueWith(TRUE)

\* start is called while no frame has been accepted yet
StartCallFirst == accepted = <<>> /\ StartCall

\* the client with the histories of accepted and written frames kept, up to
\* MaxAccepted accepted frames in all: PING from the timer, CLOSE from stop,
\* PONG and the TEXT answers of the event handler from the loop; the
\* histories follow the client through reconnects and a stop, not through a
\* restart after the stop
NextFifo ==
    \/ InitCall
    \/ StartCallFirst
    \/ StartAlreadyRunning
    \/ StartCreate
    \/ StartSetState
    \/ StopRequest
    \/ StopEnqueueCloseLogged
    \/ StopSetState
    \/ StopTaskEnded
    \/ StopForceDelete
    \/ LoopStepLogged
    \/ TransportConnectReturns(MaxReconnect)
    \/ TransportReadReturns
    \/ TimerFire
    \/ TimerEnqueueLogged
    \/ TimerRearm

SpecFifo == Init /\ [][NextFifo]_vars

\* mcp_websocket_start, once called, runs to its return
StartProceeds ==
    \/ StartAlreadyRunning
    \/ StartCreate
    \/ StartSetState

\* mcp_websocket_stop, once called, runs to its return: every wait in it has
\* a timeout
StopProceeds ==
    \/ StopEnqueueClose
    \/ StopSetState
    \/ StopTaskEnded
    \/ StopForceDelete

\* ping_timer_callback, once started, runs to its end
TimerCallbackProceeds ==
    \/ TimerEnqueue
    \/ TimerRearm

\* the client without a thread calling send_text
NextFair ==
    \/ InitCall
    \/ StartCall
    \/ StartProceeds
    \/ StopRequest
    \/ StopProceeds
    \/ LoopStep
    \/ TransportConnectReturns(MaxReconnect)
    \/ TransportReadReturns
    \/ TimerFire
    \/ TimerCallbackProceeds

\* the scheduler runs every task that can run: the loop task, the timer task
\* and the thread inside start or stop; an armed timer expires and
\* esp_transport_connect returns.  Nothing obliges the application to call
\* start or stop, or the peer to send
SpecFair ==
    /\ Init
    /\ [][NextFair]_vars
    /\ WF_vars(LoopStep)
    /\ WF_vars(TransportConnectReturns(MaxReconnect))
    /\ WF_vars(StartProceeds)
    /\ WF_vars(StopProceeds)
    /\ WF_vars(TimerFire)
    /\ WF_vars(TimerCallbackProceeds)

\* the client with two threads calling start, one of them also stop; no
\* timer and no thread calling send_text
NextStarts ==
    \/ InitCall
    \/ StartCall
    \/ StartProceeds
    \/ Start2Call
    \/ Start2Check
    \/ Start2Create
    \/ Start2SetState
    \/ StopRequest
    \/ StopProceeds
    \/ LoopStep
    \/ TransportConnectReturns(MaxReconnect)
    \/ TransportReadReturns

SpecStarts == Init /\ [][NextStarts]_vars

\* schemes of the endpoints of the parser's model: ws://, wss://, none,
\* ws:/ and WS://
Schemes ==
    {WsScheme, WssScheme, <<>>, <<"w", "s", ":", "/">>,
     <<"W", "S", ":", "/", "/">>}

\* the character c, n times
Repeat(c, n) == [i \in 1..n |-> c]

ExampleHost == <<"e", "x", "a", "m", "p", "l", "e", ".", "c", "o", "m">>

\* host names that fit g_ws_client.host
ValidHosts == {<<"h">>, ExampleHost}

\* and the empty host
Hosts == ValidHosts \cup {<<>>}

\* the texts that follow a ':' after the host
PortTexts ==
    {<<>>, <<"0">>, <<"8", "0">>, <<"6", "5", "5", "3", "5">>,
     <<"6", "5", "5", "3", "6">>, <<"8", "0", "x">>, <<"x", "8", "0">>,
     <<"-", "1">>, <<"+", "8", "0">>}

PortSuffixes == {<<>>} \cup {<<":">> \o t : t \in PortTexts}

ExamplePath == DefaultPath \o <<"?", "t", "o", "k", "e", "n", "=", "a", "b", "c">>

\* wss://example.com/mcp/?token=abc
ExampleUrl == WssScheme \o ExampleHost \o ExamplePath

\* no path, "/mcp/?token=abc" and "/a:9/b"
Paths == {<<>>, ExamplePath, <<"/", "a", ":", "9", "/", "b">>}

\* a host of MCP_WS_MAX_HOST_LEN characters, without and with a path
LongHostUrls ==
    {WsScheme \o Repeat("a", MCP_WS_MAX_HOST_LEN) \o q : q \in {<<>>, ExamplePath}}

Urls ==
    {s \o h \o p \o q : s \in Schemes, h \in Hosts, p \in PortSuffixes,
                         q \in Paths} \cup LongHostUrls

\* the first init call, with an endpoint of Urls
InitCallUrl == init_ret = "NONE" /\ InitCallWith(MainDelays, Urls)

\* a first init with every endpoint of Urls and every allocation outcome, a
\* later init with the endpoints of MainUrls, and start called before and
\* after a successful init (the loop task does not run)
NextUrl ==
    \/ InitCallUrl
    \/ InitCall
    \/ StartNotInitialized
    \/ StartErrorReturned
    \/ StartCall
    \/ StartAlreadyRunning
    \/ StartCreate
    \/ StartSetState

SpecUrl == Init /\ [][NextUrl]_vars

(* ------------------------------ claims --------------------------------- *)

\* C1: in every reachable state at most one transport session is open: no
\* session is opened by esp_transport_connect while an earlier one is not closed.
C1_AtMostOneSession == open_sessions <= 1

\* a second session has just been opened, after an earlier session carried a frame
C1_Witness ==
    /\ tpc = "connecting"
    /\ conn.pending
    /\ open_sessions = 1
    /\ sent_messages > 0

\* C2: the Connecting handler runs on state Connecting only; when the open
\* returned a non-negative result with handshake status 101 it sets the state
\* to Connected and the reconnect counter to 0, and on a negative result or any
\* other status it sets the state to Disconnected and leaves the counter alone.
C2_ConnectOutcome ==
    [][/\ (tpc = "switch" /\ tpc' = "connecting") => state = "CONNECTING"
       /\ (tpc = "connecting" /\ conn.pending /\ tpc' = "top") =>
            IF conn.result >= 0 /\ conn.status = HandshakeOk
            THEN state' = "CONNECTED" /\ reconnect_count' = 0
            ELSE state' = "DISCONNECTED" /\ reconnect_count' = reconnect_count]_vars

\* a successful open is about to be handled with a non-zero reconnect counter
C2_Witness ==
    /\ tpc = "connecting"
    /\ state = "CONNECTING"
    /\ conn.pending
    /\ conn.result >= 0
    /\ conn.status = HandshakeOk
    /\ reconnect_count > 0

\* min(x * 2^n, 60000) over the integers
RECURSIVE DoubledUpToCap(_, _)
DoubledUpToCap(x, n) ==
    IF n = 0 \/ x > MaxDelayMs THEN x ELSE DoubledUpToCap(2 * x, n - 1)

MinDelay(base, k) ==
    IF DoubledUpToCap(base, k - BackoffThreshold) > MaxDelayMs THEN MaxDelayMs
    ELSE DoubledUpToCap(base, k - BackoffThreshold)

\* C3: for every base delay and every reconnect counter k > 3, the wait of the
\* Reconnecting state is min(base_delay * 2^(k-3), 60000) ms.
C3_BackoffIsCappedDoubling ==
    (tpc = "backoff" /\ reconnect_count > BackoffThreshold) =>
        delay_ms = MinDelay(config_reconnect_delay_ms, reconnect_count)

\* C4: for reconnect attempts 1, 2 and 3 the wait is the base delay, and with
\* base delay 5000 ms the attempts 1..5 wait 5000, 5000, 5000, 10000, 20000 ms.
C4_FirstAttempts ==
    tpc = "backoff" =>
        /\ reconnect_count \in 1..3 => delay_ms = config_reconnect_delay_ms
        /\ (config_reconnect_delay_ms = 5000 /\ reconnect_count \in 1..5) =>
             delay_ms = <<5000, 5000, 5000, 10000, 20000>>[reconnect_count]

\* the fifth attempt in a row waits 20000 ms with the default base delay
C4_Witness ==
    /\ tpc = "backoff"
    /\ config_reconnect_delay_ms = 5000
    /\ reconnect_count = 5
    /\ delay_ms = 20000

\* C5: for every base delay and every reconnect counter the wait of the
\* Reconnecting state is at most 60000 ms.
C5_WaitAtMostCap == tpc = "backoff" => delay_ms <= MaxDelayMs

\* C6: with auto-reconnect enabled, no stop and transport construction
\* succeeding, every Disconnected state is followed by a Connecting state, and
\* an open answered with status 101 is followed by the state Connected.
C6_NeverGivesUp ==
    /\ (state = "DISCONNECTED" /\ auto_reconnect_enabled) ~> (state = "CONNECTING")
    /\ (conn.pending /\ conn.result >= 0 /\ conn.status = HandshakeOk)
         ~> (state = "CONNECTED")

\* the client is Disconnected after MaxFailures failed attempts in a row
C6_Witness ==
    /\ state = "DISCONNECTED"
    /\ auto_reconnect_enabled
    /\ reconnect_count = MaxFailures - 1

\* C7: every CLOSE frame read while the state is Connected, whatever its
\* payload length, sets the state to Disconnected.
C7_CloseDisconnects ==
    [][(/\ tpc = "read"
        /\ tpc' = "top"
        /\ state = "CONNECTED"
        /\ rx.kind = "FRAME"
        /\ rx.opcode = "CLOSE") => state' = "DISCONNECTED"]_vars

\* C8: every PING frame read while the state is Connected, for any payload and
\* any queue occupancy, adds exactly one PONG frame with the same payload to
\* the send queue and raises the received counter by at most 1.
C8_PingAnswered ==
    [][(/\ tpc = "read"
        /\ tpc' = "top"
        /\ state = "CONNECTED"
        /\ rx.kind = "FRAME"
        /\ rx.opcode = "PING") =>
            /\ send_queue' = Append(send_queue, Frame("PONG", rx.data))
            /\ received_messages' <= received_messages + 1]_vars

\* C9: in every reachable state the send queue holds at most its capacity of
\* frames, whatever the producers do.
C9_QueueBounded == Len(send_queue) <= MaxQueue

\* the queue is full while send_text and the timer callback are both about to
\* enqueue
C9_Witness ==
    /\ Len(send_queue) = MaxQueue
    /\ prod_pc = "enqueue"
    /\ timer_cb = "enqueue"

\* C10: an enqueue that finds the queue full returns ESP_ERR_TIMEOUT, leaves
\* the queue as it was and transmits nothing, for send_text, the keepalive
\* PING, the PONG reply and the CLOSE of stop; and a send_text call can always
\* return.
C10_FullQueueDrops ==
    /\ [][/\ (prod_pc = "enqueue" /\ prod_pc' = "idle" /\ initialized
              /\ Len(send_queue) = MaxQueue) =>
                /\ send_ret' = "ESP_ERR_TIMEOUT"
                /\ send_queue' = send_queue
                /\ sent_messages' = sent_messages
          /\ (timer_cb = "enqueue" /\ timer_cb' = "rearm"
              /\ Len(send_queue) = MaxQueue) => send_queue' = send_queue
          /\ (apc = "stop_close" /\ apc' = "stop_set"
              /\ Len(send_queue) = MaxQueue) => send_queue' = send_queue
          /\ (tpc = "read" /\ tpc' = "top"
              /\ Len(send_queue) = MaxQueue) => send_queue' = send_queue]_vars
    /\ [](prod_pc = "enqueue" => ENABLED ProducerEnqueue)

\* send_text returned ESP_ERR_TIMEOUT and the queue is still full
C10_Witness ==
    /\ send_ret = "ESP_ERR_TIMEOUT"
    /\ prod_pc = "idle"
    /\ Len(send_queue) = MaxQueue

\* a is b with some of its elements left out (the order kept)
RECURSIVE IsSubseq(_, _)
IsSubseq(a, b) ==
    IF a = <<>> THEN TRUE
    ELSE IF b = <<>> THEN FALSE
    ELSE IF Head(a) = Head(b) THEN IsSubseq(Tail(a), Tail(b))
    ELSE IsSubseq(a, Tail(b))

\* the number of frames of a type in a history
CountOf(seq, type) == Cardinality({i \in DOMAIN seq : seq[i].type = type})

\* C11: the sequence of frames the control loop has written to the transport
\* is an order-preserving subsequence of the sequence of frames the enqueues
\* accepted (TEXT, PING, PONG and CLOSE alike): nothing is written twice,
\* out of order, or without having been accepted.
C11_FifoOrder == IsSubseq(written, accepted)

\* every accepted frame was written, the first two of different types
C11_Witness ==
    /\ Len(written) = MaxAccepted
    /\ written[1].type # written[2].type

\* C12 as stated: no step decreases the sent, the received or the reconnect
\* counter.
C12_CountersMonotonic ==
    [][/\ sent_messages' >= sent_messages
       /\ received_messages' >= received_messages
       /\ reconnect_count' >= reconnect_count]_vars

\* C12 amended: no step decreases the sent or the received counter; the
\* reconnect counter rises by one at a time and falls only to 0, in the step
\* of the Connecting handler that sets the state to Connected.
C12_CountersMonotonicButReset ==
    [][/\ sent_messages' >= sent_messages
       /\ received_messages' >= received_messages
       /\ reconnect_count' > reconnect_count =>
            reconnect_count' = reconnect_count + 1
       /\ reconnect_count' < reconnect_count =>
            /\ reconnect_count' = 0
            /\ tpc = "connecting"
            /\ conn.result >= 0
            /\ conn.status = HandshakeOk
            /\ state' = "CONNECTED"]_vars

\* frames were sent and received, the reconnect counter is above 0 and an
\* open has just succeeded
C12_Witness ==
    /\ sent_messages > 0
    /\ received_messages > 0
    /\ reconnect_count > 0
    /\ conn.pending
    /\ conn.status = HandshakeOk

\* C13: every step that changes the connection state is a step of the
\* control loop task: not a step of the thread calling start or stop, of the
\* timer callback or of a thread calling send_text.
C13_StateWrittenOnlyByLoop ==
    [][state' # state =>
         /\ tpc # "none"
         /\ apc' = apc
         /\ timer_cb' = timer_cb
         /\ prod_pc' = prod_pc]_vars

\* C14: once the state has left Connected and the Disconnected handler or
\* stop has run (the states Idle, Reconnecting, Initializing and Connecting),
\* the keepalive timer is not armed, so it fires no more and enqueues no
\* PING until the next transition into Connected.  (The claim says so of
\* every state other than Connected; this is the part of it that does not
\* depend on how soon the handler runs.)
C14_TimerOnlyWhileConnected ==
    state \in {"IDLE", "RECONNECTING", "INITIALIZING", "CONNECTING"} =>
        ~timer_armed

C16_CloseWrittenBeforeExit ==
    tpc = "exit" => CountOf(written, "CLOSE") = CountOf(accepted, "CLOSE")

\* C17: a backoff wait during which a stop is pending does not run to its
\* end: the loop does not come back from vTaskDelay(delay_ms) to set the
\* state to Initializing; the wait ends with the loop leaving (or with the
\* task deleted by stop).
C17_StopAbortsBackoff ==
    [][(tpc = "backoff" /\ should_stop /\ tpc' # "backoff") =>
         tpc' \in {"exit", "none"}]_vars

\* C18: whenever the wait of stop for the loop task is over, stop goes on to
\* return, and at its return no control-loop task exists, no transport
\* session is open and the send queue is empty.
C18_StopReturnsDormant ==
    [][(apc = "stop_wait" /\ apc' # "stop_wait") =>
         /\ apc' = "idle"
         /\ ~main_task'
         /\ tpc' = "none"
         /\ open_sessions' = 0
         /\ send_queue' = <<>>]_vars

\* C19: every time the state is Disconnected the Disconnected handler comes
\* to run: the state becomes Reconnecting or Idle; and the handler's step
\* stops the timer, closes the session, delivers the Disconnected event and
\* sets Reconnecting with the reconnect counter raised by 1 when
\* auto-reconnect is enabled and no stop was requested, Idle otherwise.
C19_DisconnectedIsHandled ==
    /\ (state = "DISCONNECTED") ~> (state \in {"RECONNECTING", "IDLE"})
    /\ [][(tpc = "disconnected" /\ tpc' # "disconnected" /\ main_task') =>
            /\ ~timer_armed'
            /\ open_sessions' = 0
            /\ ~srv_connected'
            /\ IF auto_reconnect_enabled /\ ~should_stop
               THEN /\ state' = "RECONNECTING"
                    /\ reconnect_count' = reconnect_count + 1
               ELSE /\ state' = "IDLE"
                    /\ reconnect_count' = reconnect_count]_vars

\* C20: a call of start on an initialized client whose state is Idle leads
\* to the state Initializing and then to a connection attempt (the state
\* Connecting, or Error when the transport cannot be built), unless a stop
\* comes first: when the call creates the task, and also when it finds the
\* control loop running in Idle (after a disconnect with auto-reconnect
\* disabled).
C20_StartLeavesIdle ==
    /\ (apc = "start" /\ state = "IDLE" /\ main_task) ~> (state = "INITIALIZING")
    /\ (apc = "start_set" /\ state = "IDLE") ~> (state = "INITIALIZING")
    /\ (apc = "start_set" /\ state = "IDLE") ~>
         (state \in {"CONNECTING", "ERROR"} \/ should_stop)

\* C21: with auto-reconnect disabled in the configuration and no start or
\* stop call in progress, a failed connect or a handshake status other than
\* 101 leads to the Error handler delivering an Error event, and to the state
\* Idle (unless start or stop is called first); and the state then leaves Idle
\* (the loop running) only in a step of a thread calling start or stop.
C21_ConnectFailureRaisesError ==
    /\ (/\ conn.pending
        /\ (conn.result < 0 \/ conn.status # HandshakeOk)
        /\ ~config_auto_reconnect
        /\ apc = "idle") ~> (tpc = "error" \/ apc # "idle")
    /\ (/\ conn.pending
        /\ (conn.result < 0 \/ conn.status # HandshakeOk)
        /\ ~config_auto_reconnect
        /\ apc = "idle") ~> (state = "IDLE" \/ apc # "idle")
    /\ [][(state = "IDLE" /\ state' # "IDLE" /\ tpc \notin {"none", "entry"}) =>
            apc' # apc]_vars

\* C22: the Initializing handler leaves the state Connecting with the
\* transport built, or Error; a step that takes the state away from Error is
\* a step of a thread calling start or stop, never of the loop; the Error
\* handler delivers the Error event and leaves the state as it is; and while
\* the state is Error with the loop running and no stop requested, the loop
\* comes to its Error handler again.
C22_ErrorIsTerminal ==
    /\ [][(tpc = "initializing" /\ tpc' = "top") =>
            \/ state' = "ERROR"
            \/ state' = "CONNECTING" /\ transport_list' /\ transport']_vars
    /\ [][(state = "ERROR" /\ state' # "ERROR") => apc' # apc]_vars
    /\ [][(tpc = "error" /\ tpc' = "top") =>
            /\ state' = state
            /\ ~srv_connected']_vars
    /\ (state = "ERROR" /\ tpc # "none" /\ ~should_stop)
         ~> (tpc = "error" \/ state # "ERROR" \/ should_stop)

\* the Error handler has run (it released the transport list the failed
\* construction left) and the state is still Error
C22_Witness ==
    /\ state = "ERROR"
    /\ tpc = "top"
    /\ main_task
    /\ ~transport_list
    /\ ~should_stop

\* C23: in the step of the loop that delivers a Connected, Disconnected or
\* Error event, the state the event handler can read is the state the event
\* stands for: Connected (set in the same step, before the event), and
\* Disconnected and Error (the state the handler was dispatched on).
C23_EventMatchesState ==
    [][/\ (/\ tpc = "connecting"
           /\ conn.pending
           /\ conn.result >= 0
           /\ conn.status = HandshakeOk
           /\ tpc' = "top") => state' = "CONNECTED"
       /\ (tpc = "disconnected" /\ tpc' = "top") => state = "DISCONNECTED"
       /\ (tpc = "error" /\ tpc' = "top") => state = "ERROR"]_vars

\* the step delivers a MessageReceived event: the loop raises the received
\* counter in the statement before each trigger_event(MESSAGE_RECEIVED), and
\* nowhere else
MessageReceivedDelivered == received_messages' = received_messages + 1

\* C24: every TEXT or BINARY frame a transport read returned, of any payload
\* length, is delivered as one MessageReceived event in the step that handles
\* the read, and no other step delivers one: the events are the data frames
\* read, in their order, none lost and none twice.
C24_EveryDataFrameDelivered ==
    [][/\ (/\ tpc = "read"
           /\ tpc' = "top"
           /\ rx.kind = "FRAME"
           /\ rx.opcode \in {"TEXT", "BINARY"}) => MessageReceivedDelivered
       /\ MessageReceivedDelivered =>
            /\ tpc = "read"
            /\ rx.kind = "FRAME"
            /\ rx.opcode \in {"TEXT", "BINARY"}]_vars

\* C25: a transport write the loop makes either counts the frame as sent and
\* leaves the state, or (its result negative) counts nothing and sets the
\* state to Disconnected; a negative read result sets the state to
\* Disconnected; a read timeout and a PONG frame leave the state, the
\* counters, the send queue and what the event handler keeps as they were.
C25_OnlyErrorsDisconnect ==
    [][/\ (/\ tpc = "drain"
           /\ tpc' = "drain"
           /\ transport
           /\ send_queue # <<>>
           /\ send_queue' = Tail(send_queue)) =>
            \/ sent_messages' = sent_messages + 1 /\ state' = state
            \/ sent_messages' = sent_messages /\ state' = "DISCONNECTED"
       /\ (tpc = "read" /\ tpc' = "top" /\ rx.kind = "ERROR") =>
            state' = "DISCONNECTED"
       /\ (/\ tpc = "read"
           /\ tpc' = "top"
           /\ \/ rx.kind = "NONE"
              \/ rx.kind = "FRAME" /\ rx.opcode = "PONG") =>
            UNCHANGED <<state, statVars, send_queue, srv_connected>>]_vars

\* a read error is about to be handled in state Connected, after a frame was
\* written
C25_Witness ==
    /\ tpc = "read"
    /\ rx.kind = "ERROR"
    /\ state = "CONNECTED"
    /\ sent_messages > 0

\* C26: whenever the loop itself calls enqueue_send_message (the PONG it
\* answers a PING with), the queue has room, so that xQueueSend returns at
\* once and the loop does not wait in it.
C26_LoopEnqueueFindsRoom ==
    [][(/\ tpc = "read"
        /\ tpc' = "top"
        /\ rx.kind = "FRAME"
        /\ rx.opcode = "PING"
        /\ rx.data # <<>>) => Len(send_queue) < MaxQueue]_vars

\* C27: in every reachable state at most one control-loop task exists,
\* whatever the interleaving of start and stop calls of two threads.
C27_SingleLoopTask == ~(tpc # "none" /\ tpc2 # "none")

\* the endpoint of the last init call is scheme s, host h, port suffix p and
\* path q, and the call got as far as parsing it (every allocation succeeded
\* up to there)
Parsed(s, h, p, q) ==
    /\ endpoint = s \o h \o p \o q
    /\ init_ret \notin {"NONE", "ESP_ERR_NO_MEM"}

\* C28: for every endpoint ws://host[:port][/path] or wss://host[:port][/path]
\* with a host that fits, parsing without an explicit port succeeds with port
\* 80 for ws and 443 for wss; whenever parsing succeeds the host is the host
\* text, and the path is the text from the first '/' after the scheme to the
\* end, or "/mcp/" when there is none; wss://example.com/mcp/?token=abc gives
\* host example.com, port 443 and path /mcp/?token=abc.
C28_ParsedEndpoint ==
    /\ \A s \in {WsScheme, WssScheme}, h \in ValidHosts, p \in PortSuffixes,
          q \in Paths :
         Parsed(s, h, p, q) =>
           /\ p = <<>> =>
                /\ init_ret = "ESP_OK"
                /\ port = IF s = WsScheme THEN DefaultPortWs ELSE DefaultPortWss
           /\ init_ret = "ESP_OK" =>
                /\ host = h
                /\ path = IF q = <<>> THEN DefaultPath ELSE q
                /\ use_ssl = (s = WssScheme)
    /\ (endpoint = ExampleUrl /\ init_ret = "ESP_OK") =>
         /\ host = ExampleHost
         /\ port = DefaultPortWss
         /\ path = ExamplePath

\* the example endpoint has been parsed and start has created the loop task
C28_Witness ==
    /\ endpoint = ExampleUrl
    /\ initialized
    /\ host = ExampleHost
    /\ port = DefaultPortWss
    /\ path = ExamplePath
    /\ main_task

\* C29: after an init call with an endpoint that begins neither with ws:// nor
\* with wss:// (the empty endpoint included) the call has returned
\* ESP_ERR_INVALID_ARG (ESP_ERR_NO_MEM when the copy of the endpoint could not
\* be allocated), the client is not initialized, no control-loop task exists,
\* and a start call in progress is one that returns ESP_ERR_INVALID_STATE.
C29_BadSchemeRefused ==
    (/\ init_ret # "NONE"
     /\ ~HasPrefix(endpoint, WsScheme)
     /\ ~HasPrefix(endpoint, WssScheme)) =>
        /\ init_ret \in {"ESP_ERR_INVALID_ARG", "ESP_ERR_NO_MEM"}
        /\ ~initialized
        /\ ~main_task
        /\ tpc = "none"
        /\ apc \in {"idle", "start_invalid_state"}

\* init refused the endpoint ws:/h and a start call is returning
\* ESP_ERR_INVALID_STATE
C29_Witness ==
    /\ endpoint = <<"w", "s", ":", "/", "h">>
    /\ init_ret = "ESP_ERR_INVALID_ARG"
    /\ apc = "start_invalid_state"

\* t is a decimal number: one digit or more and nothing else
IsDecimal(t) == t # <<>> /\ \A i \in DOMAIN t : t[i] \in DOMAIN DigitOf

\* C30: for every ws:// or wss:// endpoint with a ':' after the host, parsing
\* succeeds, with the port the value of the text after the ':', exactly when
\* that text is a decimal number in 1..65535; every other text (empty,
\* non-numeric, digits followed by something else, 0, above 65535) makes the
\* init call return ESP_ERR_INVALID_ARG.
C30_PortTextChecked ==
    \A s \in {WsScheme, WssScheme}, h \in ValidHosts, t \in PortTexts,
       q \in Paths :
      Parsed(s, h, <<":">> \o t, q) =>
        IF IsDecimal(t) /\ DigitsValue(t, 0) \in 1..MaxPort
        THEN init_ret = "ESP_OK" /\ port = DigitsValue(t, 0)
        ELSE init_ret = "ESP_ERR_INVALID_ARG"

\* C31: every ws:// or wss:// endpoint whose host is empty ("ws://",
\* "ws:///path", "ws://:80", "ws://:80/path") makes the init call return
\* ESP_ERR_INVALID_ARG, and no successful init leaves an empty host string.
C31_EmptyHostRefused ==
    /\ \A s \in {WsScheme, WssScheme}, p \in PortSuffixes, q \in Paths :
         Parsed(s, <<>>, p, q) => init_ret = "ESP_ERR_INVALID_ARG"
    /\ init_ret = "ESP_OK" => host # <<>>

\* C32: after mcp_websocket_stop has returned, and until start is called
\* again, the state is not Connected (mcp_websocket_is_connected returns
\* false), at whatever point of the loop iteration stop was called.
C32_StoppedIsNotConnected ==
    /\ [][(apc \in {"stop_wait"} /\ apc' = "idle") => state' # "CONNECTED"]_vars
    /\ [](should_stop /\ apc = "idle" => state # "CONNECTED")

\* C33: whenever the state is Connected (mcp_websocket_is_connected returns
\* true) the transport handle exists and a session opened by
\* esp_transport_connect has not been closed.
C33_ConnectedHasSession ==
    state = "CONNECTED" => transport /\ open_sessions > 0

\* C34: once a transport write of the send-queue drain has failed and set the
\* state to Disconnected (no stop being in progress), the loop writes no
\* further frame, gets no read result and increments neither the sent nor
\* the received counter in the rest of that iteration.
C34_NoTrafficAfterWriteFailure ==
    [][(/\ state = "DISCONNECTED"
        /\ ~should_stop
        /\ tpc \in {"drain", "read"}) =>
         /\ sent_messages' = sent_messages
         /\ received_messages' = received_messages
         /\ ~(tpc = "drain" /\ transport /\ send_queue # <<>>
              /\ send_queue' = Tail(send_queue))
         /\ rx' = rx]_vars

\* C35: a Connected event is delivered only when the event before it, if
\* any, was not a Connected event: between two Connected events the handler
\* of mcp_server.c has received a Disconnected (or Error) event, which is what
\* its flag g_mcp_ws_state.connected records.
C35_EventsAlternate ==
    [][(/\ tpc = "connecting"
        /\ tpc' = "top"
        /\ state' = "CONNECTED") => ~srv_connected]_vars

\* C36: in a loop created by a start that follows a stop (should_stop reset,
\* no transport constructed yet), no Disconnected event is delivered and the
\* reconnect counter is not incremented before the loop has constructed a
\* transport for its first connection attempt.
C36_RestartBeginsClean ==
    [][(~should_stop /\ ~transport_list) =>
         /\ ~(tpc = "disconnected" /\ tpc' = "top")
         /\ reconnect_count' <= reconnect_count]_vars

\* C37: every change of the state is one of Idle -> Initializing,
\* Initializing -> Connecting, Initializing -> Error, Connecting -> Connected,
\* Connecting -> Disconnected, Connected -> Disconnected,
\* Disconnected -> Reconnecting, Disconnected -> Idle and
\* Reconnecting -> Initializing, and the state is never Disconnecting.
C37_OnlyDocumentedEdges ==
    /\ [][state' # state =>
            <<state, state'>> \in
              {<<"IDLE", "INITIALIZING">>, <<"INITIALIZING", "CONNECTING">>,
               <<"INITIALIZING", "ERROR">>, <<"CONNECTING", "CONNECTED">>,
               <<"CONNECTING", "DISCONNECTED">>, <<"CONNECTED", "DISCONNECTED">>,
               <<"DISCONNECTED", "RECONNECTING">>, <<"DISCONNECTED", "IDLE">>,
               <<"RECONNECTING", "INITIALIZING">>}]_vars
    /\ [](state # "DISCONNECTING")

(* ------------- the teardown, one statement after the other ------------- *)

\* the payload a send_text carries in the model of the teardown: it tells
\* whether a session was open when xQueueSend accepted the frame
InSession == <<2>>
OutOfSession == <<1>>

\* mcp_websocket_send_text returns, the frame carrying InSession or
\* OutOfSession
ProducerEnqueueTagged ==
    /\ prod_pc = "enqueue"
    /\ prod_pc' = "idle"
    /\ IF ~initialized
       THEN /\ send_ret' = "ESP_ERR_INVALID_STATE"
            /\ UNCHANGED send_queue
       ELSE LET d == IF open_sessions > 0 THEN InSession ELSE OutOfSession
                r == enqueue_send_message(send_queue, "TEXT", d)
            IN /\ send_queue' = r.queue
               /\ send_ret' = r.ret
    /\ UNCHANGED <<cfgVars, state, flagVars, transVars, main_task, tpc, timerVars,
                   statVars, delay_ms, conn, rx, apc, srv_connected>>
    /\ UNCHANGED logVars
    /\ UNCHANGED <<urlVars, raceVars>>

\* case MCP_WS_STATE_INITIALIZING, create_transport_list, the first loop of
\* its cleanup_transport: the send queue is emptied
LoopInitializingDrain ==
    /\ tpc = "initializing"
    /\ send_queue' = cleanup_transport.queue
    /\ tpc' = "initializing_close"
    /\ UNCHANGED <<cfgVars, state, flagVars, transVars, main_task, timerVars,
                   statVars, delay_ms, conn, rx, apc, prodVars, srv_connected>>
    /\ UNCHANGED logVars
    /\ UNCHANGED <<urlVars, raceVars>>

\* case MCP_WS_STATE_INITIALIZING, the rest of create_transport_list: the old
\* session is closed and its list destroyed, the new list and handle are
\* constructed, and the state is set
LoopInitializingClose ==
    /\ tpc = "initializing_close"
    /\ open_sessions' = cleanup_transport.open
    /\ transport_list' = TRUE
    /\ transport' = TRUE
    /\ state' = InitializingNextState(TRUE)
    /\ tpc' = "top"
    /\ UNCHANGED <<cfgVars, flagVars, main_task, send_queue, timerVars, statVars,
                   delay_ms, conn, rx, apc, prodVars, srv_connected>>
    /\ UNCHANGED logVars
    /\ UNCHANGED <<urlVars, raceVars>>

\* case MCP_WS_STATE_DISCONNECTED, esp_timer_stop and the first loop of
\* cleanup_transport: the send queue is emptied
LoopDisconnectedDrain ==
    /\ tpc = "disconnected"
    /\ timer_armed' = FALSE
    /\ send_queue' = cleanup_transport.queue
    /\ tpc' = "disconnected_close"
    /\ UNCHANGED <<cfgVars, state, flagVars, transVars, main_task, timer_cb,
                   statVars, delay_ms, conn, rx, apc, prodVars, srv_connected>>
    /\ UNCHANGED logVars
    /\ UNCHANGED <<urlVars, raceVars>>

\* case MCP_WS_STATE_DISCONNECTED, the rest: the session is closed and its
\* list destroyed, the Disconnected event is delivered and the next state set
LoopDisconnectedClose ==
    /\ tpc = "disconnected_close"
    /\ open_sessions' = cleanup_transport.open
    /\ transport_list' = cleanup_transport.list
    /\ transport' = cleanup_transport.handle
    /\ srv_connected' = trigger_event("DISCONNECTED")
    /\ state' = DisconnectedNextState(auto_reconnect_enabled, should_stop)
    /\ reconnect_count' = DisconnectedNextCount(auto_reconnect_enabled,
                                                should_stop, reconnect_count)
    /\ tpc' = "top"
    /\ UNCHANGED <<cfgVars, flagVars, main_task, send_queue, timerVars,
                   sent_messages, received_messages, delay_ms, conn, rx, apc,
                   prodVars>>
    /\ UNCHANGED logVars
    /\ UNCHANGED <<urlVars, raceVars>>

\* the control loop with the two statements of cleanup_transport (queue, then
\* session) as separate steps (its receive buffer is allocated and transport
\* construction succeeds)
LoopStepTeardown ==
    \/ LoopEntryWith(TRUE)
    \/ LoopTop
    \/ LoopSwitch
    \/ LoopInitializingDrain
    \/ LoopInitializingClose
    \/ LoopConnecting
    \/ LoopDrain
    \/ LoopRead
    \/ LoopDisconnectedDrain
    \/ LoopDisconnectedClose
    \/ LoopReconnecting
    \/ LoopBackoffDone
    \/ LoopExit

\* the client with a thread calling start and stop and a thread calling
\* send_text while the loop tears sessions down and opens new ones; no timer
NextTeardown ==
    \/ InitCall
    \/ StartCall
    \/ StartProceeds
    \/ StopRequest
    \/ StopProceeds
    \/ LoopStepTeardown
    \/ TransportConnectReturns(MaxReconnect)
    \/ TransportReadReturns
    \/ ProducerCall
    \/ ProducerEnqueueTagged

SpecTeardown == Init /\ [][NextTeardown]_vars

\* a frame of the send queue that send_text enqueued while a session was open
StaleFrames(q) ==
    {i \in DOMAIN q : q[i].type = "TEXT" /\ q[i].data = InSession}

\* C38: a frame that send_text enqueued while a session was open is not in
\* the queue when esp_transport_connect opens a later session (so that it is
\* never written to that later session), and a frame whose write failed is
\* taken from the queue and not put back.
C38_FramesStayInTheirSession ==
    [][/\ (tpc = "connecting" /\ open_sessions' > open_sessions) =>
            StaleFrames(send_queue) = {}
       /\ (/\ tpc = "drain"
           /\ tpc' = "drain"
           /\ state = "CONNECTED"
           /\ state' = "DISCONNECTED"
           /\ ~should_stop) =>
            send_queue' = Tail(send_queue)]_vars

\* C39: the sent counter is the number of frames of any type whose write
\* returned a non-negative result, the received counter is the number of
\* MESSAGE_RECEIVED events given to the callback, and the number of
\* MESSAGE_SENT events is the number of TEXT frames written: no PING, PONG or
\* CLOSE frame raises one.
C39_CountersMatchTraffic ==
    /\ sent_messages = Len(written)
    /\ received_messages = delivered.received
    /\ delivered.sent = CountOf(written, "TEXT")

\* a TEXT frame and a frame of another type were written, and a data frame
\* was received
C39_Witness ==
    /\ CountOf(written, "TEXT") = 1
    /\ Len(written) = 2
    /\ delivered.sent = 1
    /\ delivered.received = 1

(* ------------------- the configuration after init ---------------------- *)

\* a configuration copy that would be made again by an init call on an
\* initialized client
config_after_init_Recopy(was_initialized, e, stored, given) ==
    IF e = <<>> THEN stored ELSE given

\* mcp_websocket_init: what g_ws_client holds of a configuration field after
\* the call with endpoint e, given what it held and what the caller passed
\* (an empty endpoint and an initialized client return before the memcpy)
config_after_init(was_initialized, e, stored, given) ==
    IF e = <<>> \/ was_initialized THEN stored ELSE given

\* the return value of mcp_websocket_init on an initialized client
init_again_ret(e) == IF e = <<>> THEN "ESP_ERR_INVALID_ARG" ELSE "ESP_OK"

\* the endpoints passed to init in the model of the configuration: none, and
\* two that parse_url accepts
ConfigUrls == {<<>>, WsScheme \o <<"h">>, WssScheme \o <<"h">>}

\* the reconnect delays passed to a second init
ConfigDelays == {0, 1000, 5000}

\* the first mcp_websocket_init of the model of the configuration
InitCallConfig == InitCallWith(MainDelays, ConfigUrls)

\* mcp_websocket_init is called on an initialized client, with any
\* configuration
InitAgain ==
    /\ apc = "idle"
    /\ initialized
    /\ \E auto \in BOOLEAN, d \in ConfigDelays, e \in ConfigUrls,
          cb \in Callbacks :
         /\ config_auto_reconnect' =
              config_after_init(initialized, e, config_auto_reconnect, auto)
         /\ config_reconnect_delay_ms' =
              config_after_init(initialized, e, config_reconnect_delay_ms,
                                IF d = 0 THEN MCP_WS_RECONNECT_DELAY_MS ELSE d)
         /\ client_url' =
              [client_url EXCEPT
                 !.endpoint = e,
                 !.init_ret = init_again_ret(e),
                 !.config_endpoint = config_after_init(initialized, e, @, e),
                 !.event_callback = config_after_init(initialized, e, @, cb)]
    /\ UNCHANGED <<initialized, state, flagVars, transVars, main_task, tpc,
                   send_queue, timerVars, statVars, delay_ms, conn, rx, apc,
                   prodVars, srv_connected>>
    /\ UNCHANGED logVars
    /\ UNCHANGED raceVars

\* mcp_websocket_set_callback(callback)
SetCallback ==
    /\ \E cb \in Callbacks :
         client_url' = [client_url EXCEPT !.event_callback = cb]
    /\ UNCHANGED <<cfgVars, state, flagVars, transVars, main_task, tpc,
                   send_queue, timerVars, statVars, delay_ms, conn, rx, apc,
                   prodVars, srv_connected>>
    /\ UNCHANGED logVars
    /\ UNCHANGED raceVars

\* the client with a thread calling init (again), start, stop and
\* set_callback while the loop connects, fails and reconnects
NextConfig ==
    \/ InitCallConfig
    \/ InitAgain
    \/ SetCallback
    \/ StartCall
    \/ StartProceeds
    \/ StopRequest
    \/ StopProceeds
    \/ LoopStep
    \/ TransportConnectReturns(MaxReconnect)
    \/ TransportReadReturns

SpecConfig == Init /\ [][NextConfig]_vars

\* the stored configuration: endpoint, its parsed fields and the reconnect
\* policy
ConfigSnapshot ==
    <<config_endpoint, use_ssl, host, port, path, config_auto_reconnect,
      config_reconnect_delay_ms>>

\* a step in which mcp_websocket_init returns on an initialized client
SecondInitStep == initialized /\ apc = "idle" /\ endpoint' # endpoint

\* a step of mcp_websocket_set_callback: nothing but the callback changes
SetCallbackStep ==
    /\ event_callback' # event_callback
    /\ client_url' = [client_url EXCEPT !.event_callback = event_callback']
    /\ UNCHANGED <<cfgVars, state, flagVars, transVars, main_task, tpc,
                   send_queue, timerVars, statVars, delay_ms, conn, rx, apc,
                   prodVars, srv_connected, logVars, raceVars>>

\* C40 as stated: on an initialized client no step changes the stored
\* endpoint, its parsed fields, the reconnect policy or the event callback,
\* and an init call returns ESP_OK and changes neither the state nor the
\* queue.
C40_ConfigImmutable ==
    [][initialized =>
         /\ ConfigSnapshot' = ConfigSnapshot
         /\ event_callback' = event_callback
         /\ SecondInitStep =>
              /\ init_ret' = "ESP_OK"
              /\ state' = state
              /\ send_queue' = send_queue]_vars

\* C40 amended: on an initialized client no step changes the stored endpoint,
\* its parsed fields or the reconnect policy; the event callback is changed
\* by mcp_websocket_set_callback and by nothing else; an init call changes
\* neither of them nor the state nor the queue, and returns ESP_OK when its
\* endpoint is not empty and ESP_ERR_INVALID_ARG when it is.
C40_ConfigImmutableButCallback ==
    [][initialized =>
         /\ ConfigSnapshot' = ConfigSnapshot
         /\ event_callback' # event_callback => SetCallbackStep
         /\ SecondInitStep =>
              /\ init_ret' = IF endpoint' = <<>> THEN "ESP_ERR_INVALID_ARG"
                             ELSE "ESP_OK"
              /\ event_callback' = event_callback
              /\ state' = state
              /\ send_queue' = send_queue]_vars

\* a second init with another endpoint has returned ESP_OK on a client that
\* has reconnected and whose callback set_callback has replaced
C40_Witness ==
    /\ initialized
    /\ init_ret = "ESP_OK"
    /\ endpoint # config_endpoint
    /\ event_callback = "other_handler"
    /\ reconnect_count > 0
====
